---------------------------- MODULE Spec2Model ----------------------------
(***************************************************************************)
(* Certificate verification pipeline of client/pages/SignIn.tsx            *)
(* (analyzeFile, localVerification, sha256Hex, extractCertificateNumber)   *)
(* and the API client of shared/api.ts.                                    *)
(*                                                                         *)
(* Conventions.  A JavaScript string that the code inspects character by   *)
(* character (file name, decoded QR text, certificate number) is a         *)
(* sequence of one-character strings.  Other strings are TLA+ strings.     *)
(* An optional value (undefined / null) is None == <<>> or Some(x) ==      *)
(* <<x>>.  A confidence is an integer number of thousandths (0.8 = 800).   *)
(***************************************************************************)
EXTENDS Integers, Sequences, FiniteSets, TLC

VARIABLES
    registry,        \* MOCK_REGISTRY, the record set of the local fallback
    file,            \* the File handed to analyzeFile
    pc,              \* position of the run of analyzeFile
    base,            \* the VerificationResult under construction
    mlDetectionDone, \* the local flag of analyzeFile
    calls,           \* history: the stage invocations of the run, in order
    result,          \* None, or Some(the VerificationResult returned)
    suspended,       \* NoRun, or the locals of a second run of analyzeFile
                     \* that is suspended at one of its awaits
    hasWindow,       \* typeof window !== 'undefined' in this environment
    token,           \* APIClient.token: None (null) or Some(string)
    storage,         \* localStorage's 'auth_token' entry: None or Some(string)
    ops,             \* history: the setToken / clearToken calls, in order
    sent,            \* None, or Some(headers of the last request sent)
    extractInput,    \* the argument of a call of extractCertificateNumber
    extractOutput    \* None, or Some(the value the call returned)

\* the state of the APIClient and of its environment
clientVars == <<hasWindow, token, storage, ops, sent>>
\* a call of extractCertificateNumber
extractVars == <<extractInput, extractOutput>>

vars ==
    <<registry, file, pc, base, mlDetectionDone, calls, result, suspended,
      clientVars, extractVars>>

-----------------------------------------------------------------------------
(* Bounds of the model *)

\* longest record set the local matcher is checked against
MaxRegistry == 2
\* largest value of Date.now() drawn for the fingerprint fallback
MaxClock == 2
\* longest sequence of setToken / clearToken calls on the APIClient
MaxOps == 3

-----------------------------------------------------------------------------
(* Optional values *)


None == <<>>
Some(x) == <<x>>
IsSome(o) == o # None
Get(o) == o[1]

\* the value of suspended when analyzeFile runs once
NoRun == [run |-> 0]
TwoRuns == suspended.run # 0

-----------------------------------------------------------------------------
(* Characters and strings-as-sequences *)

LowerAlpha ==
    <<"a","b","c","d","e","f","g","h","i","j","k","l","m",
      "n","o","p","q","r","s","t","u","v","w","x","y","z">>
UpperAlpha ==
    <<"A","B","C","D","E","F","G","H","I","J","K","L","M",
      "N","O","P","Q","R","S","T","U","V","W","X","Y","Z">>

IsLower(c) == \E i \in 1..26 : LowerAlpha[i] = c
IsUpper(c) == \E i \in 1..26 : UpperAlpha[i] = c
IsLetter(c) == IsLower(c) \/ IsUpper(c)
IsDigit(c) == c \in {"0","1","2","3","4","5","6","7","8","9"}

\* String.prototype.toUpperCase on one ASCII character
ToUpperChar(c) ==
    IF IsLower(c) THEN UpperAlpha[CHOOSE i \in 1..26 : LowerAlpha[i] = c] ELSE c

toUpperCase(s) == [i \in 1..Len(s) |-> ToUpperChar(s[i])]

\* a character equals the pattern letter l under the /i flag
EqIgnoreCase(c, l) == ToUpperChar(c) = l

-----------------------------------------------------------------------------
(* extractCertificateNumber: input.match(/JH-[A-Z]{2}-\d{4}-\d{6,}/i) *)

\* \d{4}
YearDigits == 4
\* the lower bound of \d{6,}
MinSerialDigits == 6

\* number of consecutive digits of s starting at position i
RECURSIVE DigitRun(_, _)
DigitRun(s, i) ==
    IF i <= Len(s) /\ IsDigit(s[i]) THEN 1 + DigitRun(s, i + 1) ELSE 0

\* MatchLenAt for the pattern /[A-Z]{2}-[A-Z]{2}-\d{4}-\d{6,}/i
MatchLenAtAnyPair(s, i) ==
    LET serial == i + 7 + YearDigits
    IN  IF /\ serial <= Len(s)
           /\ IsLetter(s[i])
           /\ IsLetter(s[i + 1])
           /\ s[i + 2] = "-"
           /\ IsLetter(s[i + 3])
           /\ IsLetter(s[i + 4])
           /\ s[i + 5] = "-"
           /\ \A k \in 0..(YearDigits - 1) : IsDigit(s[i + 6 + k])
           /\ s[i + 6 + YearDigits] = "-"
           /\ DigitRun(s, serial) >= MinSerialDigits
        THEN 7 + YearDigits + DigitRun(s, serial)
        ELSE 0

\* length of the match of the pattern anchored at position i, 0 if none;
\* the final \d{6,} is greedy and nothing follows it
MatchLenAt(s, i) ==
    LET serial == i + 7 + YearDigits
    IN  IF /\ serial <= Len(s)
           /\ EqIgnoreCase(s[i], "J")
           /\ EqIgnoreCase(s[i + 1], "H")
           /\ s[i + 2] = "-"
           /\ IsLetter(s[i + 3])
           /\ IsLetter(s[i + 4])
           /\ s[i + 5] = "-"
           /\ \A k \in 0..(YearDigits - 1) : IsDigit(s[i + 6 + k])
           /\ s[i + 6 + YearDigits] = "-"
           /\ DigitRun(s, serial) >= MinSerialDigits
        THEN 7 + YearDigits + DigitRun(s, serial)
        ELSE 0

\* input is None (null / undefined) or Some(string)
extractCertificateNumber(input) ==
    IF input = None \/ Get(input) = <<>>
    THEN None
    ELSE LET s == Get(input)
             starts == {i \in 1..Len(s) : MatchLenAt(s, i) > 0}
         IN  IF starts = {}
             THEN None
             ELSE LET i == CHOOSE j \in starts : \A k \in starts : j <= k
                  IN  Some(toUpperCase(SubSeq(s, i, i + MatchLenAt(s, i) - 1)))

-----------------------------------------------------------------------------
(* Issue strings *)

QrFailedIssue == "Failed to read QR code from image"
MlUnavailableIssue == "AI-powered fake detection unavailable"
OcrFailedIssue == "OCR text extraction failed"
MlOcrUnavailableIssue == "AI-powered fake detection with OCR unavailable"
BackendUnavailableIssue ==
    "Backend verification unavailable - using local verification"
HashMismatchIssue ==
    "Certificate number found but file hash does not match registry record"
DuplicateNumberIssue ==
    "Duplicate certificate number detected in registry (possible clone)"
NoMatchIssue ==
    "No registry match. Please contact issuing institution for manual validation"
MissingTypeIssue == "Missing file type metadata"
EmptyFileIssue == "Empty file content"

-----------------------------------------------------------------------------
(* localVerification *)

\* Array.prototype.find: the first element of the filtered sequence, if any
FirstOf(hits) == IF hits = <<>> THEN None ELSE Some(Head(hits))

\* certificateNumberOf that prefers the number of the file name
certificateNumberOfNameFirst(b, f) ==
    LET fromName == extractCertificateNumber(Some(f.name))
        fromQr == IF IsSome(b.metadata.qrData) /\ Get(b.metadata.qrData) # <<>>
                  THEN extractCertificateNumber(b.metadata.qrData)
                  ELSE None
    IN  IF IsSome(fromName) THEN fromName ELSE fromQr

\* const certificateNumber = fromQr || fromName
certificateNumberOf(b, f) ==
    LET fromName == extractCertificateNumber(Some(f.name))
        fromQr == IF IsSome(b.metadata.qrData) /\ Get(b.metadata.qrData) # <<>>
                  THEN extractCertificateNumber(b.metadata.qrData)
                  ELSE None
    IN  IF IsSome(fromQr) THEN fromQr ELSE fromName

\* Matching that tries the certificate number before the fingerprint
MatchingNumberFirst(issues, directHashMatch, numberMatches) ==
    IF Len(numberMatches) > 0
    THEN [status |-> "suspect",
          issues |-> issues \o <<HashMismatchIssue>>
              \o (IF Len(numberMatches) > 1
                  THEN <<DuplicateNumberIssue>> ELSE <<>>),
          matchedRecord |-> Some(numberMatches[1])]
    ELSE IF IsSome(directHashMatch)
    THEN [status |-> "valid", issues |-> issues,
          matchedRecord |-> directHashMatch]
    ELSE [status |-> "suspect",
          issues |-> issues \o <<NoMatchIssue>>,
          matchedRecord |-> None]

\* Matching that takes the last record of the number and reports a
\* duplicate only from three records on
MatchingLastRecord(issues, directHashMatch, numberMatches) ==
    IF IsSome(directHashMatch)
    THEN [status |-> "valid", issues |-> issues,
          matchedRecord |-> directHashMatch]
    ELSE IF Len(numberMatches) > 0
    THEN [status |-> "suspect",
          issues |-> issues \o <<HashMismatchIssue>>
              \o (IF Len(numberMatches) > 2
                  THEN <<DuplicateNumberIssue>> ELSE <<>>),
          matchedRecord |-> Some(numberMatches[Len(numberMatches)])]
    ELSE [status |-> "suspect",
          issues |-> issues \o <<NoMatchIssue>>,
          matchedRecord |-> None]

\* Matching whose last branch keeps the initial status and adds no issue
MatchingNoDefault(issues, directHashMatch, numberMatches) ==
    IF IsSome(directHashMatch)
    THEN [status |-> "valid", issues |-> issues,
          matchedRecord |-> directHashMatch]
    ELSE IF Len(numberMatches) > 0
    THEN [status |-> "suspect",
          issues |-> issues \o <<HashMismatchIssue>>
              \o (IF Len(numberMatches) > 1
                  THEN <<DuplicateNumberIssue>> ELSE <<>>),
          matchedRecord |-> Some(numberMatches[1])]
    ELSE [status |-> "invalid",
          issues |-> issues,
          matchedRecord |-> None]

\* the if / else if / else over directHashMatch and numberMatches
Matching(issues, directHashMatch, numberMatches) ==
    IF IsSome(directHashMatch)
    THEN [status |-> "valid", issues |-> issues,
          matchedRecord |-> directHashMatch]
    ELSE IF Len(numberMatches) > 0
    THEN [status |-> "suspect",
          issues |-> issues \o <<HashMismatchIssue>>
              \o (IF Len(numberMatches) > 1
                  THEN <<DuplicateNumberIssue>> ELSE <<>>),
          matchedRecord |-> Some(numberMatches[1])]
    ELSE [status |-> "suspect",
          issues |-> issues \o <<NoMatchIssue>>,
          matchedRecord |-> None]

\* StructuralIssues that tests the size only when the type is present
StructuralIssuesElseIf(f) ==
    IF f.type = "" THEN <<MissingTypeIssue>>
    ELSE IF f.size = 0 THEN <<EmptyFileIssue>>
    ELSE <<>>

\* "Basic validation"
StructuralIssues(f) ==
    (IF f.type = "" THEN <<MissingTypeIssue>> ELSE <<>>)
        \o (IF f.size = 0 THEN <<EmptyFileIssue>> ELSE <<>>)

\* localVerification that spreads base over the computed fields
localVerificationBaseLast(b, f, reg) ==
    LET certificateNumber == certificateNumberOf(b, f)
        HashIs(r) == r.hashHex = b.metadata.hashHex
        NumberIs(r) == r.certificateNumber = Get(certificateNumber)
        directHashMatch == FirstOf(SelectSeq(reg, HashIs))
        numberMatches == IF IsSome(certificateNumber)
                         THEN SelectSeq(reg, NumberIs)
                         ELSE <<>>
        matched == Matching(b.issues, directHashMatch, numberMatches)
    IN  [b EXCEPT !.matchedRecord = matched.matchedRecord]

\* localVerification that builds the result's evidence anew from the file
\* and the fingerprint
localVerificationFreshEvidence(b, f, reg) ==
    LET certificateNumber == certificateNumberOf(b, f)
        HashIs(r) == r.hashHex = b.metadata.hashHex
        NumberIs(r) == r.certificateNumber = Get(certificateNumber)
        directHashMatch == FirstOf(SelectSeq(reg, HashIs))
        numberMatches == IF IsSome(certificateNumber)
                         THEN SelectSeq(reg, NumberIs)
                         ELSE <<>>
        matched == Matching(b.issues, directHashMatch, numberMatches)
    IN  [b EXCEPT !.status = matched.status,
                  !.issues = matched.issues \o StructuralIssues(f),
                  !.matchedRecord = matched.matchedRecord,
                  !.metadata =
                      [fileName |-> f.name, size |-> f.size, mime |-> f.type,
                       hashHex |-> b.metadata.hashHex, qrData |-> None,
                       uploadId |-> None, ocrText |-> None,
                       backendVerification |-> None, mlDetection |-> None]]

localVerification(b, f, reg) ==
    LET certificateNumber == certificateNumberOf(b, f)
        HashIs(r) == r.hashHex = b.metadata.hashHex
        NumberIs(r) == r.certificateNumber = Get(certificateNumber)
        directHashMatch == FirstOf(SelectSeq(reg, HashIs))
        numberMatches == IF IsSome(certificateNumber)
                         THEN SelectSeq(reg, NumberIs)
                         ELSE <<>>
        matched == Matching(b.issues, directHashMatch, numberMatches)
    IN  [b EXCEPT !.status = matched.status,
                  !.issues = matched.issues \o StructuralIssues(f),
                  !.matchedRecord = matched.matchedRecord]

-----------------------------------------------------------------------------
(* sha256Hex *)

EmptySha256 ==
    "e3b0c44298fc1c149afbf4c8996fb92427ae41e4649b934ca495991b7852b855"

RECURSIVE BytesText(_)
BytesText(buf) ==
    IF buf = <<>> THEN "" ELSE ToString(Head(buf)) \o "." \o BytesText(Tail(buf))

\* crypto.subtle.digest("SHA-256", buf) rendered as hex: an injective table
\* over the contents of the model; the digest of the empty content is the
\* real one, which MOCK_REGISTRY[1] carries
Sha256Digest(buf) ==
    IF buf = <<>> THEN EmptySha256 ELSE "sha256:" \o BytesText(buf)

HexDigits ==
    <<"0","1","2","3","4","5","6","7","8","9","a","b","c","d","e","f">>

\* Number.prototype.toString(16) on a natural number
RECURSIVE ToHex(_)
ToHex(n) ==
    IF n < 16 THEN HexDigits[n + 1]
    ELSE ToHex(n \div 16) \o HexDigits[(n % 16) + 1]

\* subtle: whether crypto.subtle exists; now: the value of Date.now()
sha256Hex(buf, subtle, now) ==
    IF ~subtle THEN "fallback-hash-" \o ToHex(now) ELSE Sha256Digest(buf)

-----------------------------------------------------------------------------
(* The record set *)

Number123 ==
    <<"J","H","-","N","U","-","2","0","1","9","-","0","0","0","1","2","3">>
Number4567 ==
    <<"J","H","-","R","U","-","2","0","2","1","-","0","0","4","5","6","7">>

MOCK_REGISTRY ==
    << [certificateNumber |-> Number123, hashHex |-> EmptySha256,
        name |-> "Aarav Kumar",
        institution |-> "Nilamber-Pitamber University",
        course |-> "B.Sc", year |-> 2019],
       [certificateNumber |-> Number4567,
        hashHex |->
          "aaaaaaaaaaaaaaaaaaaaaaaaaaaaaaaaaaaaaaaaaaaaaaaaaaaaaaaaaaaaaaaa",
        name |-> "Ishita Singh",
        institution |-> "Ranchi University",
        course |-> "B.Tech", year |-> 2021] >>

-----------------------------------------------------------------------------
(* Inputs of a run *)

ImageTypes == {"image/png"}
\* file.type.startsWith("image/")
IsImage(f) == f.type \in ImageTypes

Contents == {<<>>, <<7>>}
FileTypes == {"image/png", "application/pdf", ""}
FileNames ==
    { <<"c","e","r","t">>,
      <<"j","h","-","n","u","-","2","0","1","9","-",
        "0","0","0","1","2","3",".","p","n","g">> }

Files ==
    { [name |-> n, type |-> t, size |-> Len(c), content |-> c] :
        n \in FileNames, t \in FileTypes, c \in Contents }

\* values readQrFromImage can return: null (code?.data || null), or the
\* non-empty decoded text
QrResults ==
    { None, Some(<<"h","i">>),
      Some(<<"q","r",":">> \o Number4567) }

Confidences == {800, 801}
ErrorMessages == {None, Some(""), Some("model not loaded")}
AllMlResponses ==
    [success : BOOLEAN, is_fake : BOOLEAN, confidence : Confidences,
     error_message : ErrorMessages]
\* the responses drawn when two runs are interleaved
TwoRunMlResponses ==
    { [success |-> TRUE, is_fake |-> TRUE, confidence |-> 801,
       error_message |-> None],
      [success |-> FALSE, is_fake |-> FALSE, confidence |-> 800,
       error_message |-> Some("model not loaded")] }
MlResponses == IF TwoRuns THEN TwoRunMlResponses ELSE AllMlResponses

UploadIds == {"u1", "u2"}
OcrTexts == {"", "text"}

WireRecord ==
    [certificate_number |-> Number4567, name |-> "Ishita Singh",
     institution |-> "Ranchi University", course |-> "B.Tech",
     year |-> 2021]
\* a record of the payload that carries, beyond the declared fields, a hash
\* of the service's own
WireRecordWithHash ==
    [certificate_number |-> Number4567, name |-> "Ishita Singh",
     institution |-> "Ranchi University", course |-> "B.Tech",
     year |-> 2021, hashHex |-> "remote-hash"]
AllVerifyResponses ==
    [status : {"valid", "suspect", "invalid"},
     matched_record : {None, Some(WireRecord), Some(WireRecordWithHash)},
     issues : {<<>>, <<"remote issue">>}]
\* the responses drawn when two runs are interleaved
TwoRunVerifyResponses ==
    { [status |-> "valid", matched_record |-> Some(WireRecord),
       issues |-> <<"remote issue">>],
      [status |-> "suspect", matched_record |-> None, issues |-> <<>>] }
VerifyResponses == IF TwoRuns THEN TwoRunVerifyResponses ELSE AllVerifyResponses

\* values of Date.now() drawn for the run
ClockValues == 15..(14 + MaxClock)

-----------------------------------------------------------------------------
(* analyzeFile *)

\* mlResult.confidence > 0.8
HighConfidence == 800

\* (confidence * 100).toFixed(1), for a confidence in thousandths
ToFixed1(c) == ToString(c \div 10) \o "." \o ToString(c % 10)

FakeIssue(c) ==
    "AI detected this certificate as FAKE (" \o ToFixed1(c) \o "% confidence)"
AuthenticIssue(c) ==
    "AI verified certificate as AUTHENTIC (" \o ToFixed1(c) \o "% confidence)"
MlErrorIssue(m) == "ML Detection error: " \o m

NewBase(f, hashHex) ==
    [status |-> "invalid",
     issues |-> <<>>,
     metadata |-> [fileName |-> f.name, size |-> f.size, mime |-> f.type,
                   hashHex |-> hashHex, qrData |-> None, uploadId |-> None,
                   ocrText |-> None, backendVerification |-> None,
                   mlDetection |-> None],
     matchedRecord |-> None]

\* Push that drops the issue
PushNothing(b, issue) == b

Push(b, issue) == [b EXCEPT !.issues = Append(@, issue)]

\* MlIssues that reports an error issue for every response without success
MlIssuesAlwaysError(r) ==
    IF r.success
    THEN IF r.is_fake
         THEN <<FakeIssue(r.confidence)>>
         ELSE <<AuthenticIssue(r.confidence)>>
    ELSE IF IsSome(r.error_message)
         THEN <<MlErrorIssue(Get(r.error_message))>>
         ELSE <<MlErrorIssue("")>>

\* the issue a detection response adds, if any
MlIssues(r) ==
    IF r.success
    THEN IF r.is_fake
         THEN <<FakeIssue(r.confidence)>>
         ELSE <<AuthenticIssue(r.confidence)>>
    ELSE IF IsSome(r.error_message) /\ Get(r.error_message) # ""
         THEN <<MlErrorIssue(Get(r.error_message))>>
         ELSE <<>>

\* the status after a detection response
MlStatus(status, r) ==
    IF r.success /\ r.is_fake /\ r.confidence > HighConfidence
    THEN "invalid"
    ELSE status

\* what both call sites do with a detection response
ApplyMlResult(b, r) ==
    [b EXCEPT !.metadata.mlDetection = Some(r),
              !.issues = @ \o MlIssues(r),
              !.status = MlStatus(@, r)]

\* the merge of a verify response into the result
MergeStatus(status, v) == IF status # "invalid" THEN v.status ELSE status

\* ApplyVerification that puts the remote issues before the local ones
ApplyVerificationRemoteFirst(b, v) ==
    [b EXCEPT !.metadata.backendVerification = Some(v),
              !.status = MergeStatus(@, v),
              !.issues = v.issues \o @,
              !.matchedRecord =
                  IF IsSome(v.matched_record)
                  THEN LET m == Get(v.matched_record)
                       IN  Some([certificateNumber |-> m.certificate_number,
                                 hashHex |-> b.metadata.hashHex,
                                 name |-> m.name,
                                 institution |-> m.institution,
                                 course |-> m.course,
                                 year |-> m.year])
                  ELSE @]

\* ApplyVerification that takes the hash of the remote record when it has one
ApplyVerificationRemoteHash(b, v) ==
    [b EXCEPT !.metadata.backendVerification = Some(v),
              !.status = MergeStatus(@, v),
              !.issues = @ \o v.issues,
              !.matchedRecord =
                  IF IsSome(v.matched_record)
                  THEN LET m == Get(v.matched_record)
                       IN  Some([certificateNumber |-> m.certificate_number,
                                 hashHex |-> IF "hashHex" \in DOMAIN m
                                             THEN m.hashHex
                                             ELSE b.metadata.hashHex,
                                 name |-> m.name,
                                 institution |-> m.institution,
                                 course |-> m.course,
                                 year |-> m.year])
                  ELSE @]

ApplyVerification(b, v) ==
    [b EXCEPT !.metadata.backendVerification = Some(v),
              !.status = MergeStatus(@, v),
              !.issues = @ \o v.issues,
              !.matchedRecord =
                  IF IsSome(v.matched_record)
                  THEN LET m == Get(v.matched_record)
                       IN  Some([certificateNumber |-> m.certificate_number,
                                 hashHex |-> b.metadata.hashHex,
                                 name |-> m.name,
                                 institution |-> m.institution,
                                 course |-> m.course,
                                 year |-> m.year])
                  ELSE @]

\* CatchOf without the try around the first detection call
CatchOfUnguardedDetect(stage) ==
    CASE stage \in {"readQr", "ocr", "detect2"} -> "own"
      [] stage \in {"upload", "verify"} -> "backend"
      [] OTHER -> "none"

\* CatchOf without the try around the second detection call, whose
\* exception then reaches catch (backendError)
CatchOfDetect2Unguarded(stage) ==
    CASE stage \in {"readQr", "detect1", "ocr"} -> "own"
      [] stage \in {"upload", "verify", "detect2"} -> "backend"
      [] OTHER -> "none"

\* CatchOf without the try around extractText, whose exception then
\* reaches catch (backendError)
CatchOfOcrUnguarded(stage) ==
    CASE stage \in {"readQr", "detect1", "detect2"} -> "own"
      [] stage \in {"upload", "verify", "ocr"} -> "backend"
      [] OTHER -> "none"

\* the catch clause that handles an exception thrown by a stage:
\* "own" (the try around that call), "backend" (catch (backendError)),
\* "none" (the exception leaves analyzeFile)
CatchOf(stage) ==
    CASE stage \in {"readQr", "detect1", "ocr", "detect2"} -> "own"
      [] stage \in {"upload", "verify"} -> "backend"
      [] OTHER -> "none"

OwnIssue(stage) ==
    CASE stage = "readQr" -> QrFailedIssue
      [] stage = "detect1" -> MlUnavailableIssue
      [] stage = "ocr" -> OcrFailedIssue
      [] stage = "detect2" -> MlOcrUnavailableIssue

\* an entry of the history: the stage, whether it returned, and the text
\* and id it was called with (detect2, verify) or returned (ocr, upload)
Call(stage, ok, text, id) ==
    [stage |-> stage, ok |-> ok, text |-> text, id |-> id, response |-> None]

\* the entry of a call that returned the value response
CallReturning(stage, text, id, response) ==
    [stage |-> stage, ok |-> TRUE, text |-> text, id |-> id,
     response |-> Some(response)]

\* Throws whose backend catch clause records no issue
ThrowsNoBackendIssue(stage, next, text, id) ==
    /\ pc = stage
    /\ calls' = Append(calls, Call(stage, FALSE, text, id))
    /\ CASE CatchOf(stage) = "own" ->
              /\ base' = Push(base, OwnIssue(stage))
              /\ pc' = next
              /\ result' = result
         [] CatchOf(stage) = "backend" ->
              /\ base' = base
              /\ result' = Some(localVerification(base', file, registry))
              /\ pc' = "returnedLocal"
         [] OTHER ->
              /\ pc' = "threw"
              /\ UNCHANGED <<base, result>>
    /\ UNCHANGED <<clientVars, extractVars, registry, suspended, file, mlDetectionDone>>

\* a stage throws: control goes to the catch clause that covers it
Throws(stage, next, text, id) ==
    /\ pc = stage
    /\ calls' = Append(calls, Call(stage, FALSE, text, id))
    /\ CASE CatchOf(stage) = "own" ->
              /\ base' = Push(base, OwnIssue(stage))
              /\ pc' = next
              /\ result' = result
         [] CatchOf(stage) = "backend" ->
              /\ base' = Push(base, BackendUnavailableIssue)
              /\ result' = Some(localVerification(base', file, registry))
              /\ pc' = "returnedLocal"
         [] OTHER ->
              /\ pc' = "threw"
              /\ UNCHANGED <<base, result>>
    /\ UNCHANGED <<clientVars, extractVars, registry, suspended, file, mlDetectionDone>>

\* AfterUpload without the test of the media type
AfterUploadAlwaysOcr == "ocr"

AfterUpload == IF IsImage(file) THEN "ocr" ELSE "verify"
\* AfterOcr without the test of mlDetectionDone
AfterOcrUnconditional == "detect2"

AfterOcr == IF ~mlDetectionDone THEN "detect2" ELSE "verify"

Start ==
    /\ pc = "start"
    /\ \E subtle \in BOOLEAN, now \in ClockValues :
          base' = NewBase(file, sha256Hex(file.content, subtle, now))
    /\ pc' = IF IsImage(file) THEN "readQr" ELSE "upload"
    /\ UNCHANGED <<clientVars, extractVars, registry, suspended, file, mlDetectionDone, calls, result>>

ReadQrReturns ==
    /\ pc = "readQr"
    /\ \E qr \in QrResults :
          /\ base' = IF IsSome(qr) /\ Get(qr) # <<>>
                     THEN [base EXCEPT !.metadata.qrData = qr]
                     ELSE base
          /\ calls' = Append(calls,
                 CallReturning("readQr", None, None, qr))
    /\ pc' = "detect1"
    /\ UNCHANGED <<clientVars, extractVars, registry, suspended, file, mlDetectionDone, result>>

ReadQrThrows == Throws("readQr", "detect1", None, None)

\* Detect1Returns without mlDetectionDone = true
Detect1ReturnsFlagNotSet ==
    /\ pc = "detect1"
    /\ \E r \in MlResponses :
          /\ base' = ApplyMlResult(base, r)
          /\ calls' = Append(calls,
                 CallReturning("detect1", None, None, r))
    /\ pc' = "upload"
    /\ UNCHANGED <<clientVars, extractVars, registry, suspended, file, mlDetectionDone, result>>

\* Detect1Returns that handles a response without success like a thrown
\* detection error
Detect1ReturnsUnsuccessfulAsFailure ==
    /\ pc = "detect1"
    /\ \E r \in MlResponses :
          /\ base' = IF r.success
                     THEN ApplyMlResult(base, r)
                     ELSE Push(base, MlUnavailableIssue)
          /\ calls' = Append(calls,
                 CallReturning("detect1", None, None, r))
          /\ mlDetectionDone' = r.success
    /\ pc' = "upload"
    /\ UNCHANGED <<clientVars, extractVars, registry, suspended, file, result>>

Detect1Returns ==
    /\ pc = "detect1"
    /\ \E r \in MlResponses :
          /\ base' = ApplyMlResult(base, r)
          /\ calls' = Append(calls,
                 CallReturning("detect1", None, None, r))
    /\ mlDetectionDone' = TRUE
    /\ pc' = "upload"
    /\ UNCHANGED <<clientVars, extractVars, registry, suspended, file, result>>

\* Detect1Throws that tries the call again
Detect1ThrowsRetry == Throws("detect1", "detect1", None, None)

Detect1Throws == Throws("detect1", "upload", None, None)

UploadReturns ==
    /\ pc = "upload"
    /\ \E id \in UploadIds :
          /\ base' = [base EXCEPT !.metadata.uploadId = Some(id)]
          /\ calls' = Append(calls, Call("upload", TRUE, None, Some(id)))
    /\ pc' = AfterUpload
    /\ UNCHANGED <<clientVars, extractVars, registry, suspended, file, mlDetectionDone, result>>

UploadThrows == Throws("upload", AfterUpload, None, None)

OcrReturns ==
    /\ pc = "ocr"
    /\ \E t \in OcrTexts :
          /\ base' = [base EXCEPT !.metadata.ocrText = Some(t)]
          /\ calls' = Append(calls, Call("ocr", TRUE, Some(t), None))
    /\ pc' = AfterOcr
    /\ UNCHANGED <<clientVars, extractVars, registry, suspended, file, mlDetectionDone, result>>

OcrThrows == Throws("ocr", AfterOcr, None, None)

\* Detect2Returns called like the first call site, without text and id
Detect2ReturnsNoContext ==
    /\ pc = "detect2"
    /\ \E r \in MlResponses :
          /\ base' = ApplyMlResult(base, r)
          /\ calls' = Append(calls,
                 CallReturning("detect2", None, None, r))
    /\ pc' = "verify"
    /\ UNCHANGED <<clientVars, extractVars, registry, suspended, file, mlDetectionDone, result>>

Detect2Returns ==
    /\ pc = "detect2"
    /\ \E r \in MlResponses :
          /\ base' = ApplyMlResult(base, r)
          /\ calls' = Append(calls,
                 CallReturning("detect2", base.metadata.ocrText,
                               base.metadata.uploadId, r))
    /\ pc' = "verify"
    /\ UNCHANGED <<clientVars, extractVars, registry, suspended, file, mlDetectionDone, result>>

Detect2Throws ==
    Throws("detect2", "verify", base.metadata.ocrText, base.metadata.uploadId)

\* VerifyReturns called without the id of the upload
VerifyReturnsWithoutId ==
    /\ pc = "verify"
    /\ \E v \in VerifyResponses :
          /\ base' = ApplyVerification(base, v)
          /\ calls' = Append(calls,
                 CallReturning("verify", None, None, v))
    /\ result' = Some(base')
    /\ pc' = "returnedBackend"
    /\ UNCHANGED <<clientVars, extractVars, registry, suspended, file, mlDetectionDone>>

VerifyReturns ==
    /\ pc = "verify"
    /\ \E v \in VerifyResponses :
          /\ base' = ApplyVerification(base, v)
          /\ calls' = Append(calls,
                 CallReturning("verify", None,
                               base.metadata.uploadId, v))
    /\ result' = Some(base')
    /\ pc' = "returnedBackend"
    /\ UNCHANGED <<clientVars, extractVars, registry, suspended, file, mlDetectionDone>>

VerifyThrows == Throws("verify", "verify", None, base.metadata.uploadId)

\* the singleton apiClient as constructed with an empty store, before any
\* setToken, clearToken or request
ClientIdle ==
    /\ hasWindow = TRUE
    /\ storage = None
    /\ token = None
    /\ ops = <<>>
    /\ sent = None

\* no call of extractCertificateNumber on its own
ExtractIdle ==
    /\ extractInput = None
    /\ extractOutput = None

Init ==
    /\ ClientIdle
    /\ ExtractIdle
    /\ registry = MOCK_REGISTRY
    /\ file \in Files
    /\ pc = "start"
    /\ base = NewBase(file, "")
    /\ mlDetectionDone = FALSE
    /\ calls = <<>>
    /\ result = None
    /\ suspended = NoRun

Next ==
    \/ Start
    \/ ReadQrReturns
    \/ ReadQrThrows
    \/ Detect1Returns
    \/ Detect1Throws
    \/ UploadReturns
    \/ UploadThrows
    \/ OcrReturns
    \/ OcrThrows
    \/ Detect2Returns
    \/ Detect2Throws
    \/ VerifyReturns
    \/ VerifyThrows

Spec == Init /\ [][Next]_vars

\* Progress of a run.  The steps the runtime takes by itself are taken:
\* reading and hashing the bytes, and the local decode of the image.  A
\* remote call is `await fetch(...)` in APIClient.request, with no timeout
\* and no abort signal: it settles only when the service answers or the
\* transport fails, which nothing in the program brings about.
SpecLive ==
    /\ Init
    /\ [][Next]_vars
    /\ WF_vars(Start)
    /\ WF_vars(ReadQrReturns \/ ReadQrThrows)

-----------------------------------------------------------------------------
(* Two runs of analyzeFile on one event loop.  The locals of analyzeFile   *)
(* (file, hashHex, base, mlDetectionDone, uploadResult) belong to the      *)
(* invocation; MOCK_REGISTRY is a module constant that both runs read.     *)
(* One run executes at a time; at an await the event loop may resume the   *)
(* other run.  The variables file, pc, base, mlDetectionDone, calls and    *)
(* result are the locals of the run that executes, suspended holds those   *)
(* of the other run.                                                       *)

RunningRun == 3 - suspended.run

RunLocals(run, f, p, b, done, cs, res) ==
    [run |-> run, file |-> f, pc |-> p, base |-> b, mlDetectionDone |-> done,
     calls |-> cs, result |-> res]

\* Switch with base kept in a variable that both runs share
SwitchSharedBase ==
    /\ TwoRuns
    /\ suspended.pc \notin {"returnedBackend", "returnedLocal", "threw"}
    /\ suspended' = RunLocals(RunningRun, file, pc, base, mlDetectionDone,
                              calls, result)
    /\ file' = suspended.file
    /\ pc' = suspended.pc
    /\ base' = base
    /\ mlDetectionDone' = suspended.mlDetectionDone
    /\ calls' = suspended.calls
    /\ result' = suspended.result
    /\ UNCHANGED <<clientVars, extractVars, registry>>

\* the running run is suspended at its await and the other run, which has
\* steps left, is resumed
Switch ==
    /\ TwoRuns
    /\ suspended.pc \notin {"returnedBackend", "returnedLocal", "threw"}
    /\ suspended' = RunLocals(RunningRun, file, pc, base, mlDetectionDone,
                              calls, result)
    /\ file' = suspended.file
    /\ pc' = suspended.pc
    /\ base' = suspended.base
    /\ mlDetectionDone' = suspended.mlDetectionDone
    /\ calls' = suspended.calls
    /\ result' = suspended.result
    /\ UNCHANGED <<clientVars, extractVars, registry>>

\* the file of the first run: an image
TwoRunFirstFiles ==
    { [name |-> <<"c","e","r","t">>, type |-> "image/png",
       size |-> Len(c), content |-> c] : c \in Contents }

\* the file of the second run: another name and type
TwoRunSecondFile ==
    [name |-> <<"j","h","-","n","u","-","2","0","1","9","-",
                "0","0","0","1","2","3",".","p","n","g">>,
     type |-> "application/pdf", size |-> 1, content |-> <<7>>]

InitTwo ==
    /\ ClientIdle
    /\ ExtractIdle
    /\ registry = MOCK_REGISTRY
    /\ file \in TwoRunFirstFiles
    /\ pc = "start"
    /\ base = NewBase(file, "")
    /\ mlDetectionDone = FALSE
    /\ calls = <<>>
    /\ result = None
    /\ suspended = RunLocals(2, TwoRunSecondFile, "start",
                             NewBase(TwoRunSecondFile, ""), FALSE, <<>>, None)

NextTwo == Next \/ Switch

SpecTwo == InitTwo /\ [][NextTwo]_vars

-----------------------------------------------------------------------------
(* localVerification on its own: the record set is an input.  The source   *)
(* keeps the record set in the constant MOCK_REGISTRY; the matcher reads   *)
(* it only through find and filter, so it is checked here against every    *)
(* record set of at most MaxRegistry records drawn from RecordPool, which  *)
(* contains the two records of MOCK_REGISTRY.                              *)

-----------------------------------------------------------------------------
(* extractCertificateNumber on its own *)

\* no run of analyzeFile
RunIdle ==
    /\ registry = MOCK_REGISTRY
    /\ file = TwoRunSecondFile
    /\ pc = "idle"
    /\ base = NewBase(file, "")
    /\ mlDetectionDone = FALSE
    /\ calls = <<>>
    /\ result = None
    /\ suspended = NoRun

ExtractPrefixes == { <<>>, <<"x">>, <<"J","H","-">> }
ExtractFirstPairs ==
    { <<"J","H">>, <<"j","h">>, <<"J","h">>, <<"A","B">>, <<"J","1">> }
ExtractSecondPairs == { <<"N","U">>, <<"r","u">>, <<"N","1">> }
ExtractYears == { <<"2","0","1","9">>, <<"2","0","1">> }
ExtractSerials ==
    { <<"0","0","0","1","2","3">>, <<"0","0","0","1","2">>,
      <<"0","0","0","1","2","3","4">> }
ExtractSuffixes ==
    { <<>>, <<".","p","n","g">>,
      <<" ","j","h","-","r","u","-","2","0","2","1","-",
        "0","0","4","5","6","7">> }

\* the arguments: null, the empty string, and texts around a number-like
\* token
ExtractInputs ==
    { None, Some(<<>>) }
      \cup { Some(pre \o p1 \o <<"-">> \o p2 \o <<"-">> \o y \o <<"-">>
                  \o n \o suf) :
               pre \in ExtractPrefixes, p1 \in ExtractFirstPairs,
               p2 \in ExtractSecondPairs, y \in ExtractYears,
               n \in ExtractSerials, suf \in ExtractSuffixes }

InitExtract ==
    /\ RunIdle
    /\ ClientIdle
    /\ extractInput \in ExtractInputs
    /\ extractOutput = None

ExtractCall ==
    /\ extractOutput = None
    /\ extractOutput' = Some(extractCertificateNumber(extractInput))
    /\ UNCHANGED <<clientVars, extractInput, registry, file, pc, base,
                   mlDetectionDone, calls, result, suspended>>

NextExtract == ExtractCall

SpecExtract == InitExtract /\ [][NextExtract]_vars

-----------------------------------------------------------------------------
(* APIClient: the token and the headers of a request *)

Tokens == {"", "t1", "t2"}

\* localStorage.getItem('auth_token'): null or a string
StoredValues == {None} \cup {Some(t) : t \in Tokens}

\* a truthy token: neither null nor the empty string
Truthy(t) == IsSome(t) /\ Get(t) # ""

\* options as the methods of the client pass them to request: a FormData
\* body without headers (uploadCertificate, extractText,
\* detectFakeCertificate), neither body nor headers (health,
\* verifyCertificate, getModelStatus, loadModels), and through adminRequest
\* a JSON body with a Content-Type header
RequestOptions ==
    { [headers |-> [Authorization |-> None, ContentType |-> None],
       formData |-> TRUE],
      [headers |-> [Authorization |-> None, ContentType |-> None],
       formData |-> FALSE],
      [headers |-> [Authorization |-> None,
                    ContentType |-> Some("application/json")],
       formData |-> FALSE] }

\* the headers request builds from the options and this.token
RequestHeaders(options, tok) ==
    [Authorization |-> IF Truthy(tok) THEN Some("Bearer " \o Get(tok))
                       ELSE options.headers.Authorization,
     ContentType |-> IF ~options.formData THEN Some("application/json")
                     ELSE options.headers.ContentType]

\* the constructor: this.token is the stored entry where window exists
InitClient ==
    /\ RunIdle
    /\ ExtractIdle
    /\ hasWindow \in BOOLEAN
    /\ storage \in (IF hasWindow THEN StoredValues ELSE {None})
    /\ token = (IF hasWindow THEN storage ELSE None)
    /\ ops = <<>>
    /\ sent = None

setToken ==
    /\ Len(ops) < MaxOps
    /\ \E t \in Tokens :
          /\ token' = Some(t)
          /\ storage' = IF hasWindow THEN Some(t) ELSE storage
          /\ ops' = Append(ops, [op |-> "setToken", token |-> t])
    /\ UNCHANGED <<hasWindow, sent, extractVars, registry, file, pc, base,
                   mlDetectionDone, calls, result, suspended>>

\* clearToken that removes the stored entry only
clearTokenStoreOnly ==
    /\ Len(ops) < MaxOps
    /\ token' = token
    /\ storage' = IF hasWindow THEN None ELSE storage
    /\ ops' = Append(ops, [op |-> "clearToken", token |-> ""])
    /\ UNCHANGED <<hasWindow, sent, extractVars, registry, file, pc, base,
                   mlDetectionDone, calls, result, suspended>>

clearToken ==
    /\ Len(ops) < MaxOps
    /\ token' = None
    /\ storage' = IF hasWindow THEN None ELSE storage
    /\ ops' = Append(ops, [op |-> "clearToken", token |-> ""])
    /\ UNCHANGED <<hasWindow, sent, extractVars, registry, file, pc, base,
                   mlDetectionDone, calls, result, suspended>>

\* request up to its fetch; sent keeps the headers and the number of
\* setToken / clearToken calls made before
request ==
    /\ \E options \in RequestOptions :
          sent' = Some([headers |-> RequestHeaders(options, token),
                        after |-> Len(ops)])
    /\ UNCHANGED <<hasWindow, token, storage, ops, extractVars, registry,
                   file, pc, base, mlDetectionDone, calls, result, suspended>>

NextClient ==
    \/ setToken
    \/ clearToken
    \/ request

SpecClient == InitClient /\ [][NextClient]_vars

RecordPool ==
    { MOCK_REGISTRY[1],
      MOCK_REGISTRY[2],
      [MOCK_REGISTRY[2] EXCEPT !.hashHex = Sha256Digest(<<7>>),
                               !.name = "Clone"],
      [MOCK_REGISTRY[1] EXCEPT !.name = "Namesake"] }

Registries == UNION { [1..n -> RecordPool] : n \in 0..MaxRegistry }

LocalFileNames ==
    FileNames \cup { Number4567 \o <<".","p","d","f">> }

LocalFiles ==
    { [name |-> n, type |-> t, size |-> Len(c), content |-> c] :
        n \in LocalFileNames, t \in FileTypes, c \in Contents }

\* the decoded codes a run can have stored before it reaches the fallback
LocalQrData(f) ==
    IF IsImage(f)
    THEN QrResults
           \cup {Some(<<"j","h","-","n","u","-","2","0","1","9","-",
                        "0","0","0","1","2","3">>)}
    ELSE {None}

LocalMl(f) ==
    IF IsImage(f)
    THEN {None, Some([success |-> TRUE, is_fake |-> TRUE, confidence |-> 801,
                      error_message |-> None])}
    ELSE {None}

\* base as analyzeFile hands it to localVerification
LocalBases(f) ==
    { [NewBase(f, sha256Hex(f.content, subtle, now)) EXCEPT
           !.metadata.qrData = q,
           !.metadata.mlDetection = ml,
           !.issues = MlIssues0 \o <<BackendUnavailableIssue>>] :
        subtle \in BOOLEAN, now \in ClockValues, q \in LocalQrData(f),
        ml \in LocalMl(f),
        MlIssues0 \in {<<>>, <<FakeIssue(801)>>} }

InitLocal ==
    /\ ClientIdle
    /\ ExtractIdle
    /\ registry \in Registries
    /\ file \in LocalFiles
    /\ pc = "localVerification"
    /\ base \in LocalBases(file)
    /\ mlDetectionDone = IsSome(base.metadata.mlDetection)
    /\ calls = <<>>
    /\ result = None
    /\ suspended = NoRun

LocalVerificationCall ==
    /\ pc = "localVerification"
    /\ result' = Some(localVerification(base, file, registry))
    /\ pc' = "returnedLocal"
    /\ UNCHANGED <<clientVars, extractVars, registry, suspended, file, base, mlDetectionDone, calls>>

NextLocal == LocalVerificationCall

SpecLocal == InitLocal /\ [][NextLocal]_vars

-----------------------------------------------------------------------------
(* Vocabulary of the properties *)

Returned == pc \in {"returnedBackend", "returnedLocal"}

\* the invocations of a stage recorded so far
CallsOf(stage) == {i \in DOMAIN calls : calls[i].stage = stage}
Invoked(stage) == CallsOf(stage) # {}
Succeeded(stage) == \E i \in CallsOf(stage) : calls[i].ok
Failed(stage) == \E i \in CallsOf(stage) : ~calls[i].ok

\* invocations of detectFakeCertificate, both call sites together
DetectCount ==
    Cardinality(CallsOf("detect1")) + Cardinality(CallsOf("detect2"))

\* a detection response of the run was success, is_fake, confidence > 0.8
HighConfidenceFake ==
    /\ IsSome(base.metadata.mlDetection)
    /\ Get(base.metadata.mlDetection).success
    /\ Get(base.metadata.mlDetection).is_fake
    /\ Get(base.metadata.mlDetection).confidence > 800

\* C1: whenever a detection call of the run returned a successful result
\* with is_fake and confidence > 0.8, the returned result has status
\* 'invalid', on the backend path and on the local fallback alike.
C1_FakeLatchesInvalid ==
    (Returned /\ HighConfidenceFake) => Get(result).status = "invalid"

\* C2: when upload and verify both succeeded and no detection response was
\* a high-confidence fake, the returned status is the one verify reported.
C2_StatusIsVerifyStatus ==
    (pc = "returnedBackend" /\ ~HighConfidenceFake)
        => Get(result).status
               = Get(base.metadata.backendVerification).status

\* every recorded remote call failed (the code decode is local)
AllRemoteFailed == \A i \in DOMAIN calls : calls[i].stage # "readQr" => ~calls[i].ok

\* C3: no failure of a stage leaves analyzeFile: the run never ends in a
\* thrown exception, every position before the return has a next step,
\* a finished run holds a result, and the run in which every remote call
\* failed returns 'suspect' or 'valid'.
C3_NeverThrows ==
    /\ pc # "threw"
    /\ ~Returned => ENABLED Next
    /\ Returned => IsSome(result)
    /\ (Returned /\ AllRemoteFailed)
          => Get(result).status \in {"suspect", "valid"}

\* an image run in which decode, detection and upload all failed returned
C3_Witness ==
    /\ pc = "returnedLocal"
    /\ Failed("readQr") /\ Failed("detect1") /\ Failed("upload")
    /\ IsSome(result)

-----------------------------------------------------------------------------
(* What the local record set determines, stated without the matcher *)

MinOf(S) == CHOOSE x \in S : \A y \in S : x <= y

\* positions of the records carrying the computed fingerprint
HashHits == {i \in DOMAIN registry : registry[i].hashHex = base.metadata.hashHex}

ExtractedNumber == certificateNumberOf(base, file)

\* positions of the records carrying the extracted certificate number
NumberHits ==
    IF IsSome(ExtractedNumber)
    THEN {i \in DOMAIN registry :
              registry[i].certificateNumber = Get(ExtractedNumber)}
    ELSE {}

ExpectedStatus == IF HashHits # {} THEN "valid" ELSE "suspect"

ExpectedMatch ==
    IF HashHits # {} THEN Some(registry[MinOf(HashHits)])
    ELSE IF NumberHits # {} THEN Some(registry[MinOf(NumberHits)])
    ELSE None

ExpectedMatcherIssues ==
    (IF HashHits # {} THEN <<>>
     ELSE IF NumberHits # {}
     THEN <<HashMismatchIssue>>
              \o (IF Cardinality(NumberHits) >= 2
                  THEN <<DuplicateNumberIssue>> ELSE <<>>)
     ELSE <<NoMatchIssue>>)
    \o (IF file.type = "" THEN <<MissingTypeIssue>> ELSE <<>>)
    \o (IF file.size = 0 THEN <<EmptyFileIssue>> ELSE <<>>)

\* C4: a step in which upload or verify fails returns the fallback result:
\* its status and matched record are those the record set, the fingerprint
\* and the extracted number determine, and its issues are the issues
\* accumulated before the failure, the failure issue, then the matcher's.
C4_FallbackResult ==
    [][ (pc \in {"upload", "verify"} /\ ~calls'[Len(calls')].ok)
          => /\ pc' = "returnedLocal"
             /\ IsSome(result')
             /\ Get(result').status = ExpectedStatus
             /\ Get(result').matchedRecord = ExpectedMatch
             /\ Get(result').issues
                  = base.issues \o <<BackendUnavailableIssue>>
                      \o ExpectedMatcherIssues ]_vars

\* verify failed after earlier stages had left issues, and the fallback
\* matched a record by number
C4_Witness ==
    /\ pc = "returnedLocal"
    /\ Failed("verify")
    /\ Failed("ocr")
    /\ HashHits = {}
    /\ NumberHits # {}
    /\ Len(Get(result).issues) >= 4

\* C5: once the first detection call has returned a response, no further
\* detection call is made in the run: the run has exactly one.
C5_NoSecondCallAfterResponse ==
    Succeeded("detect1") => DetectCount = 1

\* the first call returned, upload succeeded and the run went past the
\* second call site
C5_Witness ==
    /\ Succeeded("detect1")
    /\ Succeeded("upload")
    /\ Invoked("ocr")
    /\ pc \in {"verify", "returnedBackend", "returnedLocal"}

\* C6 as stated: detection is invoked at most once in a run, both call
\* sites together.
C6_AtMostOneDetectCall == DetectCount <= 1

\* C6 amended: each call site is invoked at most once, and the second one
\* only after the first call failed and upload succeeded.
C6_SecondCallOnlyAfterFailure ==
    /\ Cardinality(CallsOf("detect1")) <= 1
    /\ Cardinality(CallsOf("detect2")) <= 1
    /\ Invoked("detect2")
          => /\ Failed("detect1")
             /\ ~Succeeded("detect1")
             /\ Succeeded("upload")

\* both call sites were invoked in one run
C6_Witness ==
    /\ DetectCount = 2
    /\ Failed("detect1")
    /\ Invoked("detect2")

-----------------------------------------------------------------------------
(* The local fallback, checked under SpecLocal *)

\* the issues of the returned result after those of base
AppendedIssues ==
    SubSeq(Get(result).issues, Len(base.issues) + 1, Len(Get(result).issues))

KeepsBaseIssues ==
    /\ Len(Get(result).issues) >= Len(base.issues)
    /\ SubSeq(Get(result).issues, 1, Len(base.issues)) = base.issues

Occurrences(seq, x) == Cardinality({i \in DOMAIN seq : seq[i] = x})

MatchingIssues == {HashMismatchIssue, DuplicateNumberIssue, NoMatchIssue}

\* C7: a result of the local fallback has status 'valid' or 'suspect',
\* never 'invalid'.
C7_FallbackNeverInvalid ==
    pc = "returnedLocal" => Get(result).status \in {"valid", "suspect"}

\* the fallback returned for a run that had recorded a high-confidence fake
C7_Witness ==
    /\ pc = "returnedLocal"
    /\ HighConfidenceFake
    /\ registry # <<>>
    /\ Get(result).status = "suspect"

\* C8: if a record carries the computed fingerprint, the fallback returns
\* 'valid' with the first such record and the matching step appends no
\* issue, whatever certificate number was extracted.
C8_FingerprintMatch ==
    (pc = "returnedLocal" /\ HashHits # {})
        => /\ Get(result).status = "valid"
           /\ Get(result).matchedRecord = Some(registry[MinOf(HashHits)])
           /\ KeepsBaseIssues
           /\ \A i \in DOMAIN AppendedIssues :
                  AppendedIssues[i] \notin MatchingIssues

\* a fingerprint match while the extracted number belongs to another record
C8_Witness ==
    /\ pc = "returnedLocal"
    /\ HashHits # {}
    /\ NumberHits # {}
    /\ registry[MinOf(NumberHits)] # registry[MinOf(HashHits)]
    /\ Get(result).status = "valid"

\* C9: with no fingerprint match and an extracted number that records
\* carry, the fallback returns 'suspect' with the first record of that
\* number, appends the mismatch issue, and appends the duplicate-number
\* issue right after it exactly when two or more records carry the number.
C9_NumberMatch ==
    (pc = "returnedLocal" /\ HashHits = {} /\ NumberHits # {})
        => /\ Get(result).status = "suspect"
           /\ Get(result).matchedRecord = Some(registry[MinOf(NumberHits)])
           /\ KeepsBaseIssues
           /\ Len(AppendedIssues) >= 1
           /\ AppendedIssues[1] = HashMismatchIssue
           /\ Occurrences(AppendedIssues, HashMismatchIssue) = 1
           /\ Occurrences(AppendedIssues, NoMatchIssue) = 0
           /\ IF Cardinality(NumberHits) >= 2
              THEN /\ Len(AppendedIssues) >= 2
                   /\ AppendedIssues[2] = DuplicateNumberIssue
                   /\ Occurrences(AppendedIssues, DuplicateNumberIssue) = 1
              ELSE Occurrences(AppendedIssues, DuplicateNumberIssue) = 0

\* two different records carry the extracted number, none the fingerprint
C9_Witness ==
    /\ pc = "returnedLocal"
    /\ HashHits = {}
    /\ Cardinality(NumberHits) >= 2
    /\ \E i, j \in NumberHits : registry[i] # registry[j]
    /\ Get(result).status = "suspect"

\* C10: with no fingerprint match and no record carrying an extracted
\* number (or no number extracted), the fallback returns 'suspect' without
\* a matched record and the matching step appends exactly one issue, the
\* recommendation of manual verification.
C10_NoMatch ==
    (pc = "returnedLocal" /\ HashHits = {} /\ NumberHits = {})
        => /\ Get(result).status = "suspect"
           /\ Get(result).matchedRecord = None
           /\ KeepsBaseIssues
           /\ Len(AppendedIssues) >= 1
           /\ AppendedIssues[1] = NoMatchIssue
           /\ Cardinality({i \in DOMAIN AppendedIssues :
                              AppendedIssues[i] \in MatchingIssues}) = 1

\* a number was extracted that no record of a non-empty record set carries
C10_Witness ==
    /\ pc = "returnedLocal"
    /\ HashHits = {}
    /\ IsSome(ExtractedNumber)
    /\ NumberHits = {}
    /\ registry # <<>>
    /\ Get(result).matchedRecord = None

-----------------------------------------------------------------------------
(* Progress, independence of the stages, failure issues *)

\* C12: every remote call eventually returns or fails, also when the
\* service never answers, so every run of analyzeFile eventually returns.
C12_EveryRunReturns == <>Returned

\* the stage has been invoked: it is pending or it has completed
Attempted(stage) == pc = stage \/ Invoked(stage)

\* C13 as stated: for an image file the failure of one remote call stops
\* no other call; in particular a failed upload prevents neither
\* extractText nor a detection attempt that is still due.
C13_FailureStopsNoOtherCall ==
    (Returned /\ IsImage(file))
        => /\ Failed("upload")
                => /\ Invoked("ocr")
                   /\ ~Succeeded("detect1") => Invoked("detect2")
           /\ Failed("ocr")
                => /\ Invoked("verify")
                   /\ ~Succeeded("detect1") => Invoked("detect2")
           /\ Failed("detect1")
                => /\ Invoked("upload")
                   /\ Invoked("ocr")
                   /\ Succeeded("upload") => Invoked("verify")
           /\ Failed("detect2") => Invoked("verify")

\* C13 amended: a failed extractText prevents neither the detection call
\* that is still due nor verify, a failed detection call prevents neither
\* upload nor, once upload succeeded, extractText and verify; a failed
\* upload ends the remote path: extractText, the second detection call and
\* verify are not attempted.
C13_FailureStopsOnlyAfterUpload ==
    (Returned /\ IsImage(file))
        => /\ Failed("upload")
                => /\ ~Invoked("ocr")
                   /\ ~Invoked("detect2")
                   /\ ~Invoked("verify")
           /\ Failed("ocr")
                => /\ Invoked("verify")
                   /\ ~Succeeded("detect1") => Invoked("detect2")
           /\ Failed("detect1")
                => /\ Invoked("upload")
                   /\ Succeeded("upload")
                        => /\ Invoked("ocr")
                           /\ Invoked("detect2")
                           /\ Invoked("verify")
           /\ Failed("detect2") => Invoked("verify")

\* extractText and both detection calls failed and verify was still called
C13_Witness ==
    /\ Returned
    /\ IsImage(file)
    /\ Failed("detect1") /\ Failed("ocr") /\ Failed("detect2")
    /\ Invoked("verify")

FailureIssues ==
    {QrFailedIssue, MlUnavailableIssue, OcrFailedIssue, MlOcrUnavailableIssue,
     BackendUnavailableIssue}

\* the issue the source pushes when the stage fails
FailureIssueOf(stage) ==
    CASE stage = "readQr" -> QrFailedIssue
      [] stage = "detect1" -> MlUnavailableIssue
      [] stage = "ocr" -> OcrFailedIssue
      [] stage = "detect2" -> MlOcrUnavailableIssue
      [] stage \in {"upload", "verify"} -> BackendUnavailableIssue

FailedCalls == {i \in DOMAIN calls : ~calls[i].ok}

FailureIssueCount(issues) ==
    Cardinality({i \in DOMAIN issues : issues[i] \in FailureIssues})

\* C14: each failed stage of a run has its failure issue in the returned
\* issue list, and a run with k failed stages returns at least k failure
\* issues.
C14_FailuresBecomeIssues ==
    Returned
        => /\ \A i \in FailedCalls :
                  \E j \in DOMAIN Get(result).issues :
                      Get(result).issues[j] = FailureIssueOf(calls[i].stage)
           /\ FailureIssueCount(Get(result).issues) >= Cardinality(FailedCalls)

\* a run with four failed stages returned
C14_Witness ==
    /\ pc = "returnedBackend"
    /\ Cardinality(FailedCalls) = 4
    /\ FailureIssueCount(Get(result).issues) = 4

-----------------------------------------------------------------------------
(* Order of the stages *)

\* C16: the result comes from localVerification exactly when upload or
\* verify failed; failures of extractText or of a detection call with
\* upload and verify succeeding leave the run on the backend path, and the
\* fallback never runs after verify returned a response.
C16_FallbackIffUploadOrVerifyFails ==
    /\ Returned
          => (pc = "returnedLocal" <=> (Failed("upload") \/ Failed("verify")))
    /\ pc = "returnedLocal" => ~Succeeded("verify")
    /\ (Returned /\ Succeeded("upload") /\ Succeeded("verify"))
          => pc = "returnedBackend"

\* extractText and both detection calls failed, the run returned verify's
\* result
C16_Witness ==
    /\ pc = "returnedBackend"
    /\ Failed("ocr") /\ Failed("detect1") /\ Failed("detect2")
    /\ Succeeded("upload") /\ Succeeded("verify")

\* C17: verify is invoked only after upload returned in the same run, with
\* the id upload returned; after a failed upload it is never invoked.
C17_VerifyAfterUpload ==
    /\ Attempted("verify") => Succeeded("upload")
    /\ Failed("upload") => ~Attempted("verify")
    /\ \A i \in CallsOf("verify") :
          /\ IsSome(calls[i].id)
          /\ \E j \in CallsOf("upload") :
                j < i /\ calls[j].ok /\ calls[j].id = calls[i].id

\* verify was called with the second id of the model
C17_Witness ==
    \E i \in CallsOf("verify") :
        /\ calls[i].id = Some("u2")
        /\ \E j \in CallsOf("upload") : calls[j].id = Some("u2")

StageOrder == <<"readQr", "detect1", "upload", "ocr", "detect2", "verify">>

Rank(stage) == CHOOSE k \in DOMAIN StageOrder : StageOrder[k] = stage

IsStage(p) == \E k \in DOMAIN StageOrder : StageOrder[k] = p

\* C18: the stages of a run are invoked in the fixed order, each at most
\* once and each after the previous one has completed or failed; upload
\* is not invoked before the code decode and the first detection attempt
\* of an image have completed or failed.
C18_StagesInFixedOrder ==
    /\ \A i, j \in DOMAIN calls :
          i < j => Rank(calls[i].stage) < Rank(calls[j].stage)
    /\ IsStage(pc) => \A i \in DOMAIN calls : Rank(calls[i].stage) < Rank(pc)
    /\ (Attempted("upload") /\ IsImage(file))
          => \E i, j \in DOMAIN calls :
                /\ calls[i].stage = "readQr"
                /\ calls[j].stage = "detect1"
                /\ i < j
                /\ \A u \in CallsOf("upload") : j < u

\* a run that went through all six stages
C18_Witness ==
    /\ Returned
    /\ Len(calls) = 6
    /\ \A k \in 1..6 : calls[k].stage = StageOrder[k]

\* C19: a run for a file that is not an image invokes neither the code
\* decode nor extractText nor detection; its only calls are upload and,
\* after a successful upload, verify, and its evidence holds no decoded
\* code, no OCR text and no ML outcome.
C19_NonImageSkipsImageStages ==
    ~IsImage(file)
        => /\ pc \notin {"readQr", "detect1", "ocr", "detect2"}
           /\ \A i \in DOMAIN calls : calls[i].stage \in {"upload", "verify"}
           /\ Attempted("verify") => Succeeded("upload")
           /\ base.metadata.qrData = None
           /\ base.metadata.ocrText = None
           /\ base.metadata.mlDetection = None
           /\ Returned
                => /\ Get(result).metadata.qrData = None
                   /\ Get(result).metadata.ocrText = None
                   /\ Get(result).metadata.mlDetection = None

\* a run for a non-image file made its two calls and returned
C19_Witness ==
    /\ ~IsImage(file)
    /\ pc = "returnedBackend"
    /\ Len(calls) = 2
    /\ calls[1].stage = "upload" /\ calls[2].stage = "verify"

\* C20: when the first detection call failed and upload succeeded, a
\* second detection call is made after extractText completed or failed and
\* before verify, with the upload id and with the OCR text if extractText
\* returned one (no text otherwise); when the first call and upload both
\* failed there is no second call.
C20_SecondDetectionCall ==
    /\ (IsImage(file) /\ Failed("detect1") /\ Succeeded("upload")
            /\ (Attempted("verify") \/ Returned))
          => \E k \in CallsOf("detect2") :
                /\ \E o \in CallsOf("ocr") :
                      /\ o < k
                      /\ calls[k].text
                           = (IF calls[o].ok THEN calls[o].text ELSE None)
                /\ \E u \in CallsOf("upload") :
                      /\ u < k
                      /\ IsSome(calls[k].id)
                      /\ calls[k].id = calls[u].id
                /\ \A v \in CallsOf("verify") : k < v
    /\ (Failed("detect1") /\ Failed("upload")) => ~Attempted("detect2")

\* the second call was made with an OCR text and the upload id
C20_Witness ==
    /\ Failed("detect1")
    /\ \E k \in CallsOf("detect2") :
          /\ calls[k].text = Some("text")
          /\ calls[k].id = Some("u2")
    /\ Invoked("verify")

-----------------------------------------------------------------------------
(* Two runs *)

\* C11: the fingerprint is a function of the bytes alone: two runs of
\* analyzeFile on identical content record the same fingerprint, in every
\* environment and at every time of invocation.
C11_SameContentSameFingerprint ==
    (TwoRuns /\ pc # "start" /\ suspended.pc # "start"
        /\ file.content = suspended.file.content)
        => base.metadata.hashHex = suspended.base.metadata.hashHex

\* what a run alone does with the outcome c of a call
ReplayCall(b, f, c) ==
    IF ~c.ok
    THEN IF c.stage \in {"upload", "verify"}
         THEN localVerification(Push(b, BackendUnavailableIssue), f,
                                MOCK_REGISTRY)
         ELSE Push(b, FailureIssueOf(c.stage))
    ELSE CASE c.stage = "readQr" ->
                IF IsSome(Get(c.response))
                THEN [b EXCEPT !.metadata.qrData = Get(c.response)]
                ELSE b
           [] c.stage \in {"detect1", "detect2"} ->
                ApplyMlResult(b, Get(c.response))
           [] c.stage = "upload" -> [b EXCEPT !.metadata.uploadId = c.id]
           [] c.stage = "ocr" -> [b EXCEPT !.metadata.ocrText = c.text]
           [] c.stage = "verify" -> ApplyVerification(b, Get(c.response))

RECURSIVE Replay(_, _, _)
Replay(b, f, cs) ==
    IF cs = <<>> THEN b ELSE Replay(ReplayCall(b, f, Head(cs)), f, Tail(cs))

\* the fingerprints sha256Hex can return for the content of f
FingerprintsOf(f) ==
    {sha256Hex(f.content, subtle, now) : subtle \in BOOLEAN, now \in ClockValues}

\* the result of a returned run is the one the run alone returns for its
\* file and the outcomes of its own calls
ReturnsAsAlone(f, p, res, cs) ==
    p \in {"returnedBackend", "returnedLocal"}
        => /\ IsSome(res)
           /\ Get(res).metadata.hashHex \in FingerprintsOf(f)
           /\ Get(res) = Replay(NewBase(f, Get(res).metadata.hashHex), f, cs)

\* C15: two runs interleaved at their awaits each return what they return
\* alone against the same call outcomes, and the record set is unchanged.
C15_RunsDoNotInterfere ==
    TwoRuns
        => /\ ReturnsAsAlone(file, pc, result, calls)
           /\ ReturnsAsAlone(suspended.file, suspended.pc, suspended.result,
                             suspended.calls)
           /\ registry = MOCK_REGISTRY

\* the image run went through its six stages and returned while the other
\* run, begun before, is still suspended at verify
C15_Witness ==
    /\ TwoRuns
    /\ IsImage(file)
    /\ Returned
    /\ Len(calls) = 6
    /\ Len(Get(result).issues) >= 2
    /\ suspended.pc = "verify"
    /\ Len(suspended.calls) = 1

-----------------------------------------------------------------------------
(* Detection responses *)

\* the step is the return of a detection call
DetectReturnsStep ==
    /\ pc \in {"detect1", "detect2"}
    /\ calls'[Len(calls')].ok

\* the response the step's call returned
StepResponse == Get(calls'[Len(calls')].response)

\* the response carries a message: mlResult.error_message is truthy
HasErrorMessage(r) == IsSome(r.error_message) /\ Get(r.error_message) # ""

\* the step keeps the issues it found and appends n issues
AppendsIssues(n) ==
    /\ Len(base'.issues) = Len(base.issues) + n
    /\ SubSeq(base'.issues, 1, Len(base.issues)) = base.issues

\* C21 as stated: every response a detection call returns, whatever its
\* success, is_fake, confidence and error_message, is recorded as the ML
\* outcome and appends exactly one issue.
C21_OneIssuePerResponse ==
    [][ DetectReturnsStep
          => /\ base'.metadata.mlDetection = Some(StepResponse)
             /\ AppendsIssues(1) ]_vars

\* C21, amended: every response a detection call returns is recorded as the
\* ML outcome; it appends exactly one issue when success is true or when it
\* carries a non-empty error_message, and no issue otherwise.
C21_IssueUnlessSilentError ==
    [][ DetectReturnsStep
          => /\ base'.metadata.mlDetection = Some(StepResponse)
             /\ AppendsIssues(IF StepResponse.success
                                    \/ HasErrorMessage(StepResponse)
                              THEN 1 ELSE 0) ]_vars

\* the first call returned success = false with an empty message: the
\* response is recorded and the issue list is still empty
C21_Witness ==
    /\ pc = "upload"
    /\ Succeeded("detect1")
    /\ ~Get(base.metadata.mlDetection).success
    /\ Get(base.metadata.mlDetection).error_message = Some("")
    /\ base.issues = <<>>

\* the first call site returned a response with success = false
FirstUnsuccessful ==
    \E i \in CallsOf("detect1") :
        calls[i].ok /\ ~Get(calls[i].response).success

UnavailableIssues == {MlUnavailableIssue, MlOcrUnavailableIssue}

Statuses == {"valid", "suspect", "invalid"}

\* C22: a detection response with success = false is a returned result and
\* not a call failure: whatever its is_fake and confidence it leaves the
\* status as it was, it is recorded, the issue it appends (if any) is not a
\* 'detection unavailable' issue, and at the first call site it sets
\* mlDetectionDone, so the second call site is never invoked in that run.
C22_UnsuccessfulResponseIsResult ==
    /\ [][ (DetectReturnsStep /\ ~StepResponse.success)
             => /\ base'.status = base.status
                /\ \A s \in Statuses : MlStatus(s, StepResponse) = s
                /\ base'.metadata.mlDetection = Some(StepResponse)
                /\ \A i \in (Len(base.issues) + 1)..Len(base'.issues) :
                       base'.issues[i] \notin UnavailableIssues
                /\ pc = "detect1" => mlDetectionDone' ]_vars
    /\ [](FirstUnsuccessful
             => /\ ~Invoked("detect2")
                /\ \A i \in DOMAIN base.issues :
                       base.issues[i] \notin UnavailableIssues)

\* the first call returned success = false with is_fake and confidence
\* above 0.8, and the run went on through upload, extractText and verify
\* without a second detection call
C22_Witness ==
    /\ pc = "returnedBackend"
    /\ FirstUnsuccessful
    /\ Get(base.metadata.mlDetection).is_fake
    /\ Get(base.metadata.mlDetection).confidence > HighConfidence
    /\ Succeeded("ocr")
    /\ ~Invoked("detect2")

-----------------------------------------------------------------------------
(* The certificate number of the local fallback *)

NumberOfCode ==
    IF IsSome(base.metadata.qrData)
    THEN extractCertificateNumber(base.metadata.qrData)
    ELSE None

NumberOfName == extractCertificateNumber(Some(file.name))

\* positions of the records carrying the number n (None: no number)
HitsOf(n) ==
    IF IsSome(n)
    THEN {i \in DOMAIN registry : registry[i].certificateNumber = Get(n)}
    ELSE {}

\* without a fingerprint match, the result is the one the number n gives
MatchedBy(n) ==
    /\ Get(result).matchedRecord
         = IF HitsOf(n) # {} THEN Some(registry[MinOf(HitsOf(n))]) ELSE None
    /\ Occurrences(Get(result).issues, HashMismatchIssue)
         = IF HitsOf(n) # {} THEN 1 ELSE 0
    /\ Occurrences(Get(result).issues, NoMatchIssue)
         = IF HitsOf(n) # {} THEN 0 ELSE 1

\* C23 as stated: the fallback takes the number from the decoded code
\* whenever a code was decoded, also when the code holds no number, and
\* from the file name only when no code was decoded.
C23_NameOnlyWithoutCode ==
    (pc = "returnedLocal" /\ HashHits = {})
        => MatchedBy(IF IsSome(base.metadata.qrData)
                     THEN NumberOfCode ELSE NumberOfName)

\* C23, amended: the fallback takes the number from the decoded code when
\* the code holds one, and from the file name when no code was decoded or
\* the decoded code holds no number.
C23_CodeNumberElseName ==
    (pc = "returnedLocal" /\ HashHits = {})
        => MatchedBy(IF IsSome(NumberOfCode)
                     THEN NumberOfCode ELSE NumberOfName)

\* a code without a number was decoded, the file name holds the number of
\* a record, and the fallback matched that record
C23_Witness ==
    /\ pc = "returnedLocal"
    /\ HashHits = {}
    /\ IsSome(base.metadata.qrData)
    /\ NumberOfCode = None
    /\ IsSome(NumberOfName)
    /\ IsSome(Get(result).matchedRecord)
    /\ Get(Get(result).matchedRecord).certificateNumber = Get(NumberOfName)

-----------------------------------------------------------------------------
(* The certificate number pattern *)

\* t has the form of a certificate number; anyFirstPair: the first letter
\* pair is any two letters, otherwise it is 'JH' in either case
IsNumberForm(t, anyFirstPair) ==
    /\ Len(t) >= 17
    /\ IF anyFirstPair
       THEN IsLetter(t[1]) /\ IsLetter(t[2])
       ELSE t[1] \in {"J", "j"} /\ t[2] \in {"H", "h"}
    /\ t[3] = "-"
    /\ IsLetter(t[4]) /\ IsLetter(t[5])
    /\ t[6] = "-"
    /\ \A k \in 7..10 : IsDigit(t[k])
    /\ t[11] = "-"
    /\ \A k \in 12..Len(t) : IsDigit(t[k])

\* the first substring of s of that form, with all the digits that follow
\* it, upper-cased; None when s is absent, empty or holds none
FirstNumberIn(in, anyFirstPair) ==
    IF in = None THEN None
    ELSE LET s == Get(in)
             spans == { <<i, j>> \in (1..Len(s)) \X (1..Len(s)) :
                          i <= j /\ IsNumberForm(SubSeq(s, i, j), anyFirstPair) }
         IN  IF spans = {} THEN None
             ELSE LET best == CHOOSE p \in spans :
                                 \A q \in spans :
                                     \/ p[1] < q[1]
                                     \/ p[1] = q[1] /\ p[2] >= q[2]
                  IN  Some(toUpperCase(SubSeq(s, best[1], best[2])))

\* C24 as stated: extractCertificateNumber returns, upper-cased, the first
\* substring of the form two letters, hyphen, two letters, hyphen, four
\* digits, hyphen, six or more digits, whatever the first letter pair, and
\* nothing when the input is absent or holds no such substring.
C24_AnyFirstPair ==
    IsSome(extractOutput)
        => Get(extractOutput) = FirstNumberIn(extractInput, TRUE)

\* C24, amended: extractCertificateNumber returns, upper-cased, the first
\* substring of the form 'JH' in either case, hyphen, two letters, hyphen,
\* four digits, hyphen, six or more digits, and nothing when the input is
\* absent or holds no such substring; a lower-case occurrence of the number
\* of a record gives the number as the record stores it, and a number whose
\* first letter pair is not 'JH' is not extracted.
C24_FirstPairJH ==
    IsSome(extractOutput)
        => /\ Get(extractOutput) = FirstNumberIn(extractInput, FALSE)
           /\ (IsSome(extractInput)
                 /\ Get(extractInput)
                      = <<"j","h","-","r","u","-","2","0","2","1","-",
                          "0","0","4","5","6","7">>)
                 => Get(extractOutput)
                      = Some(MOCK_REGISTRY[2].certificateNumber)

\* the text starts with a number of first pair 'AB' and goes on with a
\* lower-case 'jh' number: the call returned the second, upper-cased
C24_Witness ==
    /\ IsSome(extractOutput)
    /\ IsSome(extractInput)
    /\ Len(Get(extractInput)) >= 3
    /\ SubSeq(Get(extractInput), 1, 3) = <<"A","B","-">>
    /\ IsSome(FirstNumberIn(extractInput, TRUE))
    /\ Get(extractOutput) = Some(Number4567)

-----------------------------------------------------------------------------
(* The result when upload and verify succeed *)

\* the response of the verify call of a run that returned on that path
VerifyResponse == Get(calls[Len(calls)].response)

\* the issue that describes a detection response, if any
OutcomeIssue(r) ==
    IF r.success
    THEN IF r.is_fake THEN <<FakeIssue(r.confidence)>>
                      ELSE <<AuthenticIssue(r.confidence)>>
    ELSE IF HasErrorMessage(r) THEN <<MlErrorIssue(Get(r.error_message))>>
    ELSE <<>>

\* the issue a call before verify leaves in the run
LocalIssueOf(c) ==
    IF ~c.ok THEN <<FailureIssueOf(c.stage)>>
    ELSE IF c.stage \in {"detect1", "detect2"}
    THEN OutcomeIssue(Get(c.response))
    ELSE <<>>

\* the issues the calls cs leave, in the order of the calls
RECURSIVE LocalIssues(_)
LocalIssues(cs) ==
    IF cs = <<>> THEN <<>> ELSE LocalIssueOf(Head(cs)) \o LocalIssues(Tail(cs))

\* C25: when upload and verify succeed, the returned issues are the issues
\* the stages before verify produced, in the order of the stages, followed
\* by the issues of verify's response in their order.
C25_LocalIssuesThenRemote ==
    pc = "returnedBackend"
        => Get(result).issues
             = LocalIssues(SubSeq(calls, 1, Len(calls) - 1))
                 \o VerifyResponse.issues

\* three stages left an issue before verify returned one of its own
C25_Witness ==
    /\ pc = "returnedBackend"
    /\ Failed("readQr") /\ Failed("ocr")
    /\ Succeeded("detect1")
    /\ VerifyResponse.issues # <<>>
    /\ Len(Get(result).issues) = 4

\* C26: when upload and verify succeed, the result has a matched record
\* exactly when verify's response carries one; the record takes certificate
\* number, holder name, institution, course and year from the response, and
\* its fingerprint is the one this run computed from the file, also when
\* the response's record carries a hash of its own.
C26_MatchedRecordFromVerify ==
    pc = "returnedBackend"
        => /\ IsSome(Get(result).matchedRecord)
                <=> IsSome(VerifyResponse.matched_record)
           /\ IsSome(VerifyResponse.matched_record)
                => LET m == Get(VerifyResponse.matched_record)
                       rec == Get(Get(result).matchedRecord)
                   IN  /\ DOMAIN rec = {"certificateNumber", "hashHex", "name",
                                        "institution", "course", "year"}
                       /\ rec.certificateNumber = m.certificate_number
                       /\ rec.name = m.name
                       /\ rec.institution = m.institution
                       /\ rec.course = m.course
                       /\ rec.year = m.year
                       /\ rec.hashHex = Get(result).metadata.hashHex
                       /\ rec.hashHex \in FingerprintsOf(file)

\* verify's record carried a hash of its own and the result's record has
\* the fingerprint of the file
C26_Witness ==
    /\ pc = "returnedBackend"
    /\ IsSome(VerifyResponse.matched_record)
    /\ "hashHex" \in DOMAIN Get(VerifyResponse.matched_record)
    /\ IsSome(Get(result).matchedRecord)
    /\ Get(Get(result).matchedRecord).hashHex = Sha256Digest(file.content)

-----------------------------------------------------------------------------
(* Structural issues *)

\* the structural issues the declared type and size call for
ExpectedStructural ==
    (IF file.type = "" THEN <<MissingTypeIssue>> ELSE <<>>)
        \o (IF file.size = 0 THEN <<EmptyFileIssue>> ELSE <<>>)

\* C27: the local fallback appends, after the matching issues, the
\* missing-media-type issue exactly when the declared type is empty and the
\* empty-content issue exactly when the declared size is zero, in every
\* matching branch (a fingerprint match on a zero-size file is 'valid' with
\* the empty-content issue); the path on which upload and verify succeed
\* appends neither.
C27_StructuralIssues ==
    /\ pc = "returnedLocal"
         => LET is == Get(result).issues
                n == Len(ExpectedStructural)
            IN  /\ Len(is) >= Len(base.issues) + n
                /\ SubSeq(is, Len(is) - n + 1, Len(is)) = ExpectedStructural
                /\ SubSeq(is, 1, Len(base.issues)) = base.issues
                /\ \A i \in (Len(base.issues) + 1)..(Len(is) - n) :
                       is[i] \in MatchingIssues
                /\ Occurrences(is, MissingTypeIssue)
                     = IF file.type = "" THEN 1 ELSE 0
                /\ Occurrences(is, EmptyFileIssue)
                     = IF file.size = 0 THEN 1 ELSE 0
                /\ (HashHits # {} /\ file.size = 0)
                     => /\ Get(result).status = "valid"
                        /\ is[Len(is)] = EmptyFileIssue
    /\ pc = "returnedBackend"
         => /\ Occurrences(Get(result).issues, MissingTypeIssue) = 0
            /\ Occurrences(Get(result).issues, EmptyFileIssue) = 0

\* a zero-size file without a declared type whose fingerprint is the one
\* of a record: 'valid', with both structural issues
C27_Witness ==
    /\ pc = "returnedLocal"
    /\ HashHits # {}
    /\ file.size = 0
    /\ file.type = ""
    /\ Get(result).status = "valid"
    /\ Occurrences(Get(result).issues, MissingTypeIssue) = 1
    /\ Occurrences(Get(result).issues, EmptyFileIssue) = 1

-----------------------------------------------------------------------------
(* The evidence of the returned result *)

\* the value the successful call of a stage returned in field fld
ReturnedBy(stage, fld) ==
    {calls[i][fld] : i \in {j \in CallsOf(stage) : calls[j].ok}}

\* C28: the evidence of the returned result reflects the stages that
\* completed, on the success path and on the fallback path: the upload id
\* is present iff upload succeeded, the OCR text only if extractText
\* succeeded, the verification outcome iff verify returned, the ML outcome
\* iff a detection call returned, the decoded code only if the decode
\* found one; fingerprint, declared type and declared size are those
\* recorded at the start and no step changes them.
C28_EvidenceReflectsStages ==
    /\ [](Returned
            => LET m == Get(result).metadata
               IN  /\ IsSome(m.uploadId) <=> Succeeded("upload")
                   /\ IsSome(m.uploadId) => m.uploadId \in ReturnedBy("upload", "id")
                   /\ IsSome(m.ocrText) => m.ocrText \in ReturnedBy("ocr", "text")
                   /\ IsSome(m.backendVerification) <=> Succeeded("verify")
                   /\ IsSome(m.backendVerification)
                        => m.backendVerification
                             \in ReturnedBy("verify", "response")
                   /\ IsSome(m.mlDetection)
                        <=> (Succeeded("detect1") \/ Succeeded("detect2"))
                   /\ IsSome(m.mlDetection)
                        => m.mlDetection
                             \in ReturnedBy("detect1", "response")
                                   \cup ReturnedBy("detect2", "response")
                   /\ IsSome(m.qrData)
                        => /\ Some(m.qrData) \in ReturnedBy("readQr", "response")
                           /\ Get(m.qrData) # <<>>
                   /\ m.hashHex \in FingerprintsOf(file)
                   /\ m.hashHex = base.metadata.hashHex
                   /\ m.mime = file.type
                   /\ m.size = file.size
                   /\ m.fileName = file.name)
    /\ [][ pc # "start"
             => /\ base'.metadata.hashHex = base.metadata.hashHex
                /\ base'.metadata.mime = base.metadata.mime
                /\ base'.metadata.size = base.metadata.size ]_vars

\* the fallback returned after upload and the second detection call
\* succeeded and extractText and verify failed
C28_Witness ==
    /\ pc = "returnedLocal"
    /\ Failed("verify") /\ Failed("ocr") /\ Failed("detect1")
    /\ Succeeded("detect2")
    /\ IsSome(Get(result).metadata.uploadId)
    /\ IsSome(Get(result).metadata.mlDetection)
    /\ Get(result).metadata.ocrText = None
    /\ Get(result).metadata.backendVerification = None

-----------------------------------------------------------------------------
(* The token of the APIClient *)

LastOp == ops[Len(ops)]

\* the request was sent after the last setToken / clearToken call
SentAfterLastOp == IsSome(sent) /\ ops # <<>> /\ Get(sent).after = Len(ops)

\* a request carries 'Authorization: Bearer t' iff the most recent call
\* was setToken(t) with a non-empty t, and no Authorization header otherwise
HeaderFollowsLastOp ==
    SentAfterLastOp
        => Get(sent).headers.Authorization
             = IF LastOp.op = "setToken" /\ LastOp.token # ""
               THEN Some("Bearer " \o LastOp.token)
               ELSE None

\* C29 as stated: the Authorization header of a request follows the most
\* recent setToken / clearToken call, and after each of the two operations
\* the in-memory token and the stored 'auth_token' entry agree.
C29_TokenAndStoreAgree ==
    /\ HeaderFollowsLastOp
    /\ ops # <<>> => token = storage

\* C29, amended: the Authorization header of a request follows the most
\* recent setToken / clearToken call; after each of the two operations the
\* in-memory token and the stored 'auth_token' entry agree where window is
\* defined, and where it is not the token is kept in memory only and no
\* entry is written.
C29_TokenAndStoreAgreeWithWindow ==
    /\ HeaderFollowsLastOp
    /\ ops # <<>>
         => /\ token = IF LastOp.op = "setToken"
                       THEN Some(LastOp.token) ELSE None
            /\ hasWindow => token = storage
            /\ ~hasWindow => storage = None

\* setToken, clearToken, setToken again, then a request with the header of
\* the last token, which is also the stored entry
C29_Witness ==
    /\ Len(ops) = 3
    /\ ops[1].op = "setToken" /\ ops[1].token = "t1"
    /\ ops[2].op = "clearToken"
    /\ LastOp.op = "setToken" /\ LastOp.token = "t2"
    /\ SentAfterLastOp
    /\ Get(sent).headers.Authorization = Some("Bearer t2")
    /\ hasWindow
    /\ storage = Some("t2")

=============================================================================
